---- MODULE Spec2Model ----
(***************************************************************************)
(* Model of src/src/06-objects-tasks.js: the CSS selector builder          *)
(* (class MySelectorsClass and the facade cssSelectorBuilder), and at the  *)
(* end Rectangle, getJSON and fromJSON (the variable lib).                 *)
(*                                                                         *)
(* A JavaScript string is a sequence of one-character strings, so that     *)
(* `+=` and template literals are sequence concatenation.  The heap of     *)
(* builder instances is the sequence objs; an instance is named by its     *)
(* index.  hist, combined, work, last and prev are history variables:      *)
(* they record what was called and never influence what the code does.     *)
(***************************************************************************)
EXTENDS Integers, Sequences, FiniteSets

\* Bounds of the model: the instances constructed; the calls that returned
\* with an instance changed (counted by work); and the category calls of one
\* chain, as long as its instance is the only one and was never combined.
MaxBuilders == 3
MaxWork == 3
MaxChain == 6

\* Argument strings of the category calls (a one-letter name, the empty
\* string) and combinator strings ('+' and ' ' of the documentation).  A run
\* passes one of each to all its calls: the variables arg and tok, which Init
\* draws from Runs.
Runs == { << <<"a">>, <<"+">> >>, << <<>>, <<" ">> >> }

Categories == { "element", "id", "class", "attr", "pseudoClass", "pseudoElement" }

VARIABLES objs, hist, combined, work, last, prev, arg, tok, lib

vars == << objs, hist, combined, work, last, prev, arg, tok, lib >>

----
\* class MySelectorsClass

\* constructor()
constructor ==
  [ selector |-> <<>>,
    isElementCalled |-> FALSE,
    isIdCalled |-> FALSE,
    isPseudoElementCalled |-> FALSE,
    order |-> 0 ]

\* A method returns `this` (res = "ok") or throws: "dup" is the error
\* 'Element, id and pseudo-element should not occur more then one time
\* inside the selector', "order" the error 'Selector parts should be
\* arranged in the following order: ...'.  obj is `this` after the call.
Throw(kind, this) == [ res |-> kind, obj |-> this ]

Return(this) == [ res |-> "ok", obj |-> this ]

\* element() without its duplicate check.
element_noDuplicateCheck(this, val) ==
  IF this.order > 1 THEN Throw("order", this)
  ELSE Return([ this EXCEPT !.selector = @ \o val,
                            !.isElementCalled = TRUE,
                            !.order = 1 ])

\* element() with its ordering check against id's ordinal.
element_orderAboveId(this, val) ==
  IF this.isElementCalled THEN Throw("dup", this)
  ELSE IF this.order > 2 THEN Throw("order", this)
  ELSE Return([ this EXCEPT !.selector = @ \o val,
                            !.isElementCalled = TRUE,
                            !.order = 1 ])

\* element() with its two checks in the other order.
element_orderCheckFirst(this, val) ==
  IF this.order > 1 THEN Throw("order", this)
  ELSE IF this.isElementCalled THEN Throw("dup", this)
  ELSE Return([ this EXCEPT !.selector = @ \o val,
                            !.isElementCalled = TRUE,
                            !.order = 1 ])

element(this, val) ==
  IF this.isElementCalled THEN Throw("dup", this)
  ELSE IF this.order > 1 THEN Throw("order", this)
  ELSE Return([ this EXCEPT !.selector = @ \o val,
                            !.isElementCalled = TRUE,
                            !.order = 1 ])

\* id() appending before its ordering check.
id_appendsBeforeCheck(this, val) ==
  IF this.isIdCalled THEN Throw("dup", this)
  ELSE IF this.order > 2
  THEN Throw("order", [ this EXCEPT !.selector = @ \o <<"#">> \o val ])
  ELSE Return([ this EXCEPT !.selector = @ \o <<"#">> \o val,
                            !.isIdCalled = TRUE,
                            !.order = 2 ])

\* id() without its ordering check.
id_noOrderCheck(this, val) ==
  IF this.isIdCalled THEN Throw("dup", this)
  ELSE Return([ this EXCEPT !.selector = @ \o <<"#">> \o val,
                            !.isIdCalled = TRUE,
                            !.order = 2 ])

\* id() not recording its ordinal.
id_orderNotSet(this, val) ==
  IF this.isIdCalled THEN Throw("dup", this)
  ELSE IF this.order > 2 THEN Throw("order", this)
  ELSE Return([ this EXCEPT !.selector = @ \o <<"#">> \o val,
                            !.isIdCalled = TRUE ])

id(this, val) ==
  IF this.isIdCalled THEN Throw("dup", this)
  ELSE IF this.order > 2 THEN Throw("order", this)
  ELSE Return([ this EXCEPT !.selector = @ \o <<"#">> \o val,
                            !.isIdCalled = TRUE,
                            !.order = 2 ])

\* class() without its ordering check.
class_noOrderCheck(this, val) ==
  Return([ this EXCEPT !.selector = @ \o <<".">> \o val,
                       !.order = 3 ])

class(this, val) ==
  IF this.order > 3 THEN Throw("order", this)
  ELSE Return([ this EXCEPT !.selector = @ \o <<".">> \o val,
                            !.order = 3 ])

\* attr() rejecting a repeated attr(): >= for >.
attr_rejectsRepeat(this, val) ==
  IF this.order >= 4 THEN Throw("order", this)
  ELSE Return([ this EXCEPT !.selector = @ \o <<"[">> \o val \o <<"]">>,
                            !.order = 4 ])

attr(this, val) ==
  IF this.order > 4 THEN Throw("order", this)
  ELSE Return([ this EXCEPT !.selector = @ \o <<"[">> \o val \o <<"]">>,
                            !.order = 4 ])

\* pseudoClass() with its ordering check one ordinal too high.
pseudoClass_orderAboveSix(this, val) ==
  IF this.order > 6 THEN Throw("order", this)
  ELSE Return([ this EXCEPT !.selector = @ \o <<":">> \o val,
                            !.order = 5 ])

pseudoClass(this, val) ==
  IF this.order > 5 THEN Throw("order", this)
  ELSE Return([ this EXCEPT !.selector = @ \o <<":">> \o val,
                            !.order = 5 ])

\* pseudoElement() with the prefix of a pseudo-class.
pseudoElement_singleColon(this, val) ==
  IF this.isPseudoElementCalled THEN Throw("dup", this)
  ELSE Return([ this EXCEPT !.selector = @ \o <<":">> \o val,
                            !.isPseudoElementCalled = TRUE,
                            !.order = 6 ])

\* pseudoElement() never setting its flag.
pseudoElement_flagNotSet(this, val) ==
  IF this.isPseudoElementCalled THEN Throw("dup", this)
  ELSE Return([ this EXCEPT !.selector = @ \o <<":", ":">> \o val,
                            !.order = 6 ])

pseudoElement(this, val) ==
  IF this.isPseudoElementCalled THEN Throw("dup", this)
  ELSE Return([ this EXCEPT !.selector = @ \o <<":", ":">> \o val,
                            !.isPseudoElementCalled = TRUE,
                            !.order = 6 ])

stringify(this) == this.selector

\* combine() with its operands in the other order.
combine_swapped(this, val1, com, val2) ==
  [ res |-> "ok",
    obj |-> [ this EXCEPT !.selector =
                val2.selector \o <<" ">> \o com \o <<" ">> \o val1.selector ] ]

\* combine(val1, com, val2): val1 and val2 are instances, read through
\* stringify() before `this.selector` is assigned.
combine(this, val1, com, val2) ==
  Return([ this EXCEPT !.selector =
             stringify(val1) \o <<" ">> \o com \o <<" ">> \o stringify(val2) ])

\* The method named cat, applied to `this`.
Method(cat, this, val) ==
  CASE cat = "element" -> element(this, val)
    [] cat = "id" -> id(this, val)
    [] cat = "class" -> class(this, val)
    [] cat = "attr" -> attr(this, val)
    [] cat = "pseudoClass" -> pseudoClass(this, val)
    [] cat = "pseudoElement" -> pseudoElement(this, val)

----
\* History

Builders == 1 .. Len(objs)

\* last: the last call.  recv is its receiver, out the instance it returned
\* (0: it threw, or returned a string, which is ret).
NoCall ==
  [ op |-> "none", recv |-> 0, val |-> <<>>, res |-> "ok", fresh |-> FALSE,
    a |-> 0, b |-> 0, ret |-> <<>>, out |-> 0 ]

\* lib: the last call of Rectangle, getArea, getJSON or fromJSON, with its
\* arguments and result, and the number of constructor runs so far.
NoLib ==
  [ op |-> "none", args |-> <<>>, rect |-> <<>>, area |-> 0, obj |-> <<>>,
    json |-> <<>>, res |-> <<>>, news |-> 0, newsBefore |-> 0 ]

\* Whether the bounds leave room for one more call that changes instance b.
Room(b) ==
  \/ work < MaxWork
  \/ Len(objs) = 1 /\ b = 1 /\ combined[1] = 0 /\ work < MaxChain

Init ==
  /\ objs = <<>>
  /\ hist = <<>>
  /\ combined = <<>>
  /\ last = NoCall
  /\ prev = <<>>
  /\ work = 0
  /\ lib = NoLib
  /\ \E run \in Runs : arg = run[1] /\ tok = run[2]

----
\* Calls on an instance the caller holds

\* A category method returning a changed copy of `this` instead of `this`.
Call_returnsCopy(cat, b, val) ==
  LET r == Method(cat, objs[b], val) IN
  /\ r.res = "ok" => Room(b)
  /\ work' = IF r.res = "ok" THEN work + 1 ELSE work
  /\ objs' = IF r.res = "ok" THEN Append(objs, r.obj) ELSE objs
  /\ hist' = IF r.res = "ok"
             THEN Append(hist, Append(hist[b], << cat, val >>))
             ELSE hist
  /\ combined' = IF r.res = "ok" THEN Append(combined, combined[b]) ELSE combined
  /\ last' = [ NoCall EXCEPT !.op = cat, !.recv = b, !.val = val, !.res = r.res,
                             !.out = IF r.res = "ok" THEN Len(objs) + 1 ELSE 0 ]
  /\ prev' = objs
  /\ UNCHANGED << arg, tok, lib >>

\* b.<cat>(val), b an instance returned by an earlier call.
Call(cat, b, val) ==
  LET r == Method(cat, objs[b], val) IN
  /\ r.res = "ok" => Room(b)
  /\ work' = IF r.res = "ok" THEN work + 1 ELSE work
  /\ objs' = [ objs EXCEPT ![b] = r.obj ]
  /\ hist' = IF r.res = "ok"
             THEN [ hist EXCEPT ![b] = Append(@, << cat, val >>) ]
             ELSE hist
  /\ combined' = combined
  /\ last' = [ NoCall EXCEPT !.op = cat, !.recv = b, !.val = val, !.res = r.res,
                             !.out = IF r.res = "ok" THEN b ELSE 0 ]
  /\ prev' = objs
  /\ UNCHANGED << arg, tok, lib >>

\* r.combine(a, com, b) on an instance r the caller holds.
CallCombine(r, a, com, b) ==
  LET res == combine(objs[r], objs[a], com, objs[b]) IN
  /\ work < MaxWork
  /\ work' = work + 1
  /\ objs' = [ objs EXCEPT ![r] = res.obj ]
  /\ hist' = hist
  /\ combined' = [ combined EXCEPT ![r] = @ + 1 ]
  /\ last' = [ NoCall EXCEPT !.op = "combine", !.recv = r, !.val = com,
                             !.res = res.res, !.a = a, !.b = b, !.out = r ]
  /\ prev' = objs
  /\ UNCHANGED << arg, tok, lib >>

\* stringify() emptying the buffer once it has read it.
CallStringify_resets(b) ==
  /\ last' = [ NoCall EXCEPT !.op = "stringify", !.recv = b,
                             !.ret = stringify(objs[b]) ]
  /\ objs' = [ objs EXCEPT ![b].selector = <<>> ]
  /\ prev' = objs
  /\ UNCHANGED << hist, combined, work, arg, tok, lib >>

\* b.stringify()
CallStringify(b) ==
  /\ last' = [ NoCall EXCEPT !.op = "stringify", !.recv = b,
                             !.ret = stringify(objs[b]) ]
  /\ prev' = objs
  /\ UNCHANGED << objs, hist, combined, work, arg, tok, lib >>

----
\* The facade cssSelectorBuilder

\* The facade keeping one instance for all its chains instead of constructing
\* one per call.
Facade_sharedInstance(cat, value) ==
  LET this == IF objs = <<>> THEN constructor ELSE objs[1]
      r == Method(cat, this, value) IN
  /\ Len(objs) < MaxBuilders
  /\ work < MaxWork
  /\ IF r.res = "ok"
     THEN /\ objs' = IF objs = <<>> THEN << r.obj >> ELSE [ objs EXCEPT ![1] = r.obj ]
          /\ hist' = IF objs = <<>> THEN << << << cat, value >> >> >>
                     ELSE [ hist EXCEPT ![1] = Append(@, << cat, value >>) ]
          /\ combined' = IF objs = <<>> THEN << 0 >> ELSE combined
          /\ work' = work + 1
     ELSE UNCHANGED << objs, hist, combined, work >>
  /\ last' = [ NoCall EXCEPT !.op = cat, !.recv = 1, !.val = value,
                             !.res = r.res, !.fresh = TRUE ]
  /\ prev' = objs
  /\ UNCHANGED << arg, tok, lib >>

\* cssSelectorBuilder.<cat>(value): new MySelectorsClass().<cat>(value).
\* The new instance is returned to the caller only when the method returns.
Facade(cat, value) ==
  LET r == Method(cat, constructor, value) IN
  /\ Len(objs) < MaxBuilders
  /\ work < MaxWork
  /\ IF r.res = "ok"
     THEN /\ objs' = Append(objs, r.obj)
          /\ hist' = Append(hist, << << cat, value >> >>)
          /\ combined' = Append(combined, 0)
          /\ work' = work + 1
     ELSE UNCHANGED << objs, hist, combined, work >>
  /\ last' = [ NoCall EXCEPT !.op = cat, !.recv = Len(objs) + 1, !.val = value,
                             !.res = r.res, !.fresh = TRUE,
                             !.out = IF r.res = "ok" THEN Len(objs) + 1 ELSE 0 ]
  /\ prev' = objs
  /\ UNCHANGED << arg, tok, lib >>

\* The facade combining into its first operand instead of a new instance.
FacadeCombine_intoOperand(selector1, combinator, selector2) ==
  LET r == combine(objs[selector1], objs[selector1], combinator, objs[selector2]) IN
  /\ Len(objs) < MaxBuilders
  /\ work < MaxWork
  /\ work' = work + 1
  /\ objs' = [ objs EXCEPT ![selector1] = r.obj ]
  /\ hist' = hist
  /\ combined' = [ combined EXCEPT ![selector1] = @ + 1 ]
  /\ last' = [ NoCall EXCEPT !.op = "combine", !.recv = selector1,
                             !.val = combinator, !.res = r.res, !.fresh = TRUE,
                             !.a = selector1, !.b = selector2 ]
  /\ prev' = objs
  /\ UNCHANGED << arg, tok, lib >>

\* The facade combining into a copy of its first operand instead of a new
\* instance.
FacadeCombine_copiesOperand(selector1, combinator, selector2) ==
  LET r == combine(objs[selector1], objs[selector1], combinator, objs[selector2]) IN
  /\ Len(objs) < MaxBuilders
  /\ work < MaxWork
  /\ work' = work + 1
  /\ objs' = Append(objs, r.obj)
  /\ hist' = Append(hist, <<>>)
  /\ combined' = Append(combined, 1)
  /\ last' = [ NoCall EXCEPT !.op = "combine", !.recv = Len(objs) + 1,
                             !.val = combinator, !.res = r.res, !.fresh = TRUE,
                             !.a = selector1, !.b = selector2,
                             !.out = Len(objs) + 1 ]
  /\ prev' = objs
  /\ UNCHANGED << arg, tok, lib >>

\* cssSelectorBuilder.combine(selector1, combinator, selector2)
FacadeCombine(selector1, combinator, selector2) ==
  LET r == combine(constructor, objs[selector1], combinator, objs[selector2]) IN
  /\ Len(objs) < MaxBuilders
  /\ work < MaxWork
  /\ work' = work + 1
  /\ objs' = Append(objs, r.obj)
  /\ hist' = Append(hist, <<>>)
  /\ combined' = Append(combined, 1)
  /\ last' = [ NoCall EXCEPT !.op = "combine", !.recv = Len(objs) + 1,
                             !.val = combinator, !.res = r.res, !.fresh = TRUE,
                             !.a = selector1, !.b = selector2,
                             !.out = Len(objs) + 1 ]
  /\ prev' = objs
  /\ UNCHANGED << arg, tok, lib >>

----
Next ==
  \/ \E cat \in Categories : Facade(cat, arg)
  \/ \E s1 \in Builders, s2 \in Builders : FacadeCombine(s1, tok, s2)
  \/ \E cat \in Categories, b \in Builders : Call(cat, b, arg)
  \/ \E r \in Builders, a \in Builders, b \in Builders : CallCombine(r, a, tok, b)
  \/ \E b \in Builders : CallStringify(b)

Spec == Init /\ [][Next]_vars

TypeOK ==
  /\ Len(objs) <= MaxBuilders
  /\ work <= MaxWork \/ (Len(objs) = 1 /\ work <= MaxChain)
  /\ Len(hist) = Len(objs)
  /\ Len(combined) = Len(objs)
  /\ \A b \in Builders : objs[b].order \in 0 .. 6

----
\* The selector syntax of the documentation,
\*   element#id.class[attr]:pseudoClass::pseudoElement

\* The position of a category in that order, as the error message lists it.
Ord(cat) ==
  CASE cat = "element" -> 1
    [] cat = "id" -> 2
    [] cat = "class" -> 3
    [] cat = "attr" -> 4
    [] cat = "pseudoClass" -> 5
    [] cat = "pseudoElement" -> 6

\* The text of one part of a selector.
Fragment(cat, value) ==
  CASE cat = "element" -> value
    [] cat = "id" -> <<"#">> \o value
    [] cat = "class" -> <<".">> \o value
    [] cat = "attr" -> <<"[">> \o value \o <<"]">>
    [] cat = "pseudoClass" -> <<":">> \o value
    [] cat = "pseudoElement" -> <<":", ":">> \o value

Singletons == { "element", "id", "pseudoElement" }

Repeatables == { "class", "attr", "pseudoClass" }

----
\* Reading the history

\* The categories appended to a chain h, and how often cat was.
CatsOf(h) == { h[i][1] : i \in 1 .. Len(h) }

Count(h, cat) == Cardinality({ i \in 1 .. Len(h) : h[i][1] = cat })

\* The ordinal of the category appended last (0: none yet).
LastOrd(h) == IF h = <<>> THEN 0 ELSE Ord(h[Len(h)][1])

\* The parts of h, written one after the other.
RECURSIVE Concat(_)
Concat(h) ==
  IF h = <<>> THEN <<>> ELSE Fragment(h[1][1], h[1][2]) \o Concat(Tail(h))

\* Appending cat keeps h of the shape
\*   element? id? class* attr* pseudoClass* pseudoElement?
Extends(h, cat) ==
  /\ LastOrd(h) <= Ord(cat)
  /\ cat \in Singletons => cat \notin CatsOf(h)

\* The last call was the category call cat on an instance the caller held.
Called(cat) == last.op = cat /\ ~last.fresh

Failed == last.res # "ok"

\* The chain of the last call's receiver.  A call that threw left it as it was.
RecvHist == hist[last.recv]

\* The receiver's chain before the last call.
HistBefore ==
  IF last.op \in Categories /\ ~Failed
  THEN SubSeq(RecvHist, 1, Len(RecvHist) - 1)
  ELSE RecvHist

\* The text of an instance before the last call (empty: it did not exist).
TextBefore(b) == IF b \in 1 .. Len(prev) THEN prev[b].selector ELSE <<>>

----
\* C1: on one builder, a category call whose ordinal is lower than the ordinal
\* of the category appended last throws, so the categories appended to a
\* builder are in non-decreasing ordinal order.
C1_Ordering ==
  /\ \A b \in Builders : \A i \in 1 .. Len(hist[b]) - 1 :
       Ord(hist[b][i][1]) <= Ord(hist[b][i + 1][1])
  /\ \A b \in Builders : \A cat \in Categories :
       Ord(cat) < LastOrd(hist[b]) => Method(cat, objs[b], arg).res # "ok"
  /\ \A cat \in Categories :
       Called(cat) /\ Ord(cat) < LastOrd(HistBefore) => Failed

\* class() called after attr() was appended, and it threw.
C1_Witness ==
  /\ Called("class") /\ Failed
  /\ LastOrd(RecvHist) = Ord("attr")

\* C2: element, id and pseudoElement each return at most once per builder; a
\* second call throws whatever was called in between, also when no ordering
\* rule is broken (element() directly after element()).
C2_Singletons ==
  /\ \A b \in Builders : \A cat \in Singletons : Count(hist[b], cat) <= 1
  /\ \A b \in Builders : \A cat \in Singletons :
       cat \in CatsOf(hist[b]) => Method(cat, objs[b], arg).res # "ok"

\* element() directly after element(): no ordering rule is broken, it threw.
C2_Witness ==
  /\ Called("element") /\ Failed
  /\ CatsOf(RecvHist) = { "element" }
  /\ LastOrd(RecvHist) = Ord("element")

\* C3: a category call that throws leaves every field of the builder (text,
\* order, the three flags) as it was, so stringify() returns the same string
\* after it as before.
C3_NoPartialMutation ==
  last.op \in Categories /\ Failed =>
    /\ objs = prev
    /\ \A b \in Builders : stringify(objs[b]) = stringify(prev[b])

\* An out-of-order call threw on a builder whose text is not empty.
C3_Witness ==
  /\ last.op \in Categories /\ last.res = "order"
  /\ stringify(objs[last.recv]) # <<>>

\* C4: a chain of the shape element? id? class* attr* pseudoClass*
\* pseudoElement? started through the facade never throws, and stringify()
\* returns its fragments value, #value, .value, [value], :value, ::value
\* concatenated in call order.
C4_ValidChains ==
  /\ \A b \in Builders :
       combined[b] = 0 => stringify(objs[b]) = Concat(hist[b])
  /\ \A b \in Builders : \A cat \in Categories :
       combined[b] = 0 /\ Extends(hist[b], cat) => Method(cat, objs[b], arg).res = "ok"
  /\ last.op \in Categories /\ last.fresh => ~Failed
  /\ \A cat \in Categories :
       Called(cat) /\ Failed /\ combined[last.recv] = 0 => ~Extends(RecvHist, cat)

\* The chain element, id, class, attr, pseudoClass, pseudoElement was built.
C4_Witness ==
  \E b \in Builders :
    /\ combined[b] = 0
    /\ [ i \in 1 .. Len(hist[b]) |-> hist[b][i][1] ] =
         << "element", "id", "class", "attr", "pseudoClass", "pseudoElement" >>
    /\ last.op = "pseudoElement" /\ last.recv = b /\ ~Failed

\* C5: cssSelectorBuilder.combine(A, token, B) never throws, whatever A, B and
\* token, and the result's stringify() is stringify(A) + " " + token + " " +
\* stringify(B), also when A or B is the result of a combine; the token is
\* used as it is.
C5_FacadeCombine ==
  last.op = "combine" /\ last.fresh =>
    /\ ~Failed
    /\ last.recv = Len(objs)
    /\ stringify(objs[last.recv]) =
         TextBefore(last.a) \o <<" ">> \o last.val \o <<" ">> \o TextBefore(last.b)

\* A nested combination with the token ' ': three spaces between operands.
C5_Witness ==
  /\ last.op = "combine" /\ last.fresh
  /\ combined[last.b] > 0
  /\ combined[last.a] = 0 /\ stringify(objs[last.a]) # <<>>
  /\ last.val = <<" ">>

\* C6 as the claim states it: element() throws exactly when element was
\* already set or the category appended last has an ordinal above id's.
C6_AsClaimed ==
  last.op = "element" =>
    (Failed <=> \/ "element" \in CatsOf(HistBefore)
                \/ LastOrd(HistBefore) > Ord("id"))

\* C6, amended: element() throws exactly when element was already set or the
\* category appended last has an ordinal above element's, that is when one of
\* id, class, attr, pseudoClass, pseudoElement was appended before; otherwise
\* it returns and has appended its argument as it is, without a prefix.
C6_Element ==
  /\ \A b \in Builders :
       element(objs[b], arg).res # "ok" <=>
         \/ "element" \in CatsOf(hist[b])
         \/ CatsOf(hist[b]) \cap { "id", "class", "attr", "pseudoClass", "pseudoElement" } # {}
  /\ last.op = "element" =>
       (Failed <=> \/ "element" \in CatsOf(HistBefore)
                   \/ LastOrd(HistBefore) > Ord("element"))
  /\ last.op = "element" /\ ~Failed =>
       stringify(objs[last.recv]) = TextBefore(last.recv) \o last.val

\* element() called on a builder that holds an id only, and it threw.
C6_Witness ==
  /\ Called("element") /\ Failed
  /\ CatsOf(RecvHist) = { "id" }

\* C7: class, attr and pseudoClass throw on an ordering violation only: such a
\* call returns exactly when no category of a higher ordinal was appended,
\* however often the same category was appended before.
C7_Repeatables ==
  /\ \A b \in Builders : \A cat \in Repeatables :
       /\ Method(cat, objs[b], arg).res = "ok" <=>
            \A c \in CatsOf(hist[b]) : Ord(c) <= Ord(cat)
       /\ Method(cat, objs[b], arg).res \in { "ok", "order" }
  /\ last.op \in Repeatables =>
       (Failed <=> \E c \in CatsOf(HistBefore) : Ord(c) > Ord(last.op))

\* class() returned right after class(); then attr(); then class() threw.
C7_Witness ==
  /\ Called("class") /\ Failed
  /\ [ i \in 1 .. Len(RecvHist) |-> RecvHist[i][1] ] = << "class", "class", "attr" >>

\* C8: pseudoElement() throws exactly when a pseudo-element was already set;
\* otherwise it returns and has appended ::value.  No builder ever has an
\* order above pseudoElement's ordinal, so the missing ordering check is never
\* missed.
C8_PseudoElement ==
  /\ \A b \in Builders :
       /\ pseudoElement(objs[b], arg).res # "ok" <=> "pseudoElement" \in CatsOf(hist[b])
       /\ objs[b].order <= Ord("pseudoElement")
  /\ last.op = "pseudoElement" =>
       (Failed <=> "pseudoElement" \in CatsOf(HistBefore))
  /\ last.op = "pseudoElement" /\ ~Failed =>
       stringify(objs[last.recv]) = TextBefore(last.recv) \o <<":", ":">> \o last.val

\* pseudoElement() returned on a builder whose last part was a pseudo-class.
C8_Witness ==
  /\ Called("pseudoElement") /\ ~Failed
  /\ LastOrd(HistBefore) = Ord("pseudoClass")

\* C9 as the claim states it: after a combine, both operands are as they were.
C9_AsClaimed ==
  last.op = "combine" =>
    /\ objs[last.a] = prev[last.a]
    /\ objs[last.b] = prev[last.b]

\* The fields of an instance that decide which calls it accepts.
Guards(o) == << o.order, o.isElementCalled, o.isIdCalled, o.isPseudoElementCalled >>

\* C9, amended: combine never changes the order or the flags of an operand,
\* so each operand accepts and rejects category calls as before; an
\* operand's text is unchanged too unless that operand is the receiver of the
\* call, which the facade's combine excludes: its receiver is a new instance.
C9_CombineReads ==
  last.op = "combine" =>
    /\ \A x \in { last.a, last.b } :
         /\ Guards(objs[x]) = Guards(prev[x])
         /\ x # last.recv => objs[x] = prev[x]
         /\ \A cat \in Categories :
              Method(cat, objs[x], arg).res = Method(cat, prev[x], arg).res
    /\ last.fresh => objs[last.a] = prev[last.a] /\ objs[last.b] = prev[last.b]

\* The facade combined two different builders that both hold parts.
C9_Witness ==
  /\ last.op = "combine" /\ last.fresh
  /\ last.a # last.b
  /\ objs[last.a].order > 0 /\ objs[last.b].order > 0

\* C10: builders share nothing.  A facade call starts from an empty builder
\* (no text, order 0, no flag set), and a category call, returning or
\* throwing, changes no builder but its receiver; a singleton category used
\* on one builder is still free on the next.
C10_NoSharedState ==
  /\ last.fresh /\ last.op \in Categories =>
       /\ ~Failed
       /\ Len(objs) = Len(prev) + 1 /\ last.recv = Len(objs)
       /\ objs[last.recv] =
            [ selector |-> Fragment(last.op, last.val),
              isElementCalled |-> last.op = "element",
              isIdCalled |-> last.op = "id",
              isPseudoElementCalled |-> last.op = "pseudoElement",
              order |-> Ord(last.op) ]
  /\ last.fresh /\ last.op = "combine" =>
       /\ Len(objs) = Len(prev) + 1 /\ last.recv = Len(objs)
       /\ Guards(objs[last.recv]) = << 0, FALSE, FALSE, FALSE >>
  /\ last.op \in Categories =>
       \A x \in 1 .. Len(prev) : x # last.recv => objs[x] = prev[x]

\* The facade's element() built a second builder after element() on the first.
C10_Witness ==
  /\ last.fresh /\ last.op = "element" /\ ~Failed
  /\ Len(objs) >= 2
  /\ objs[1].isElementCalled

\* C11: stringify() returns the accumulated text and changes nothing: no
\* text, order or flag of any builder, so a repeated call returns the same
\* string and every later category call is decided as before.
C11_StringifyPure ==
  last.op = "stringify" =>
    /\ objs = prev
    /\ last.ret = objs[last.recv].selector
    /\ combined[last.recv] = 0 => last.ret = Concat(RecvHist)
    /\ \A cat \in Categories :
         Method(cat, objs[last.recv], arg) = Method(cat, prev[last.recv], arg)

\* stringify() was called on a chain of two parts or more.
C11_Witness ==
  /\ last.op = "stringify"
  /\ Len(RecvHist) >= 2
  /\ last.ret # <<>>

\* C12: a category call that returns, returns its receiver and no copy: no
\* instance is added, and the receiver holds the effect of the call on top of
\* what it held, so a chain accumulates on one instance.
C12_Fluent ==
  /\ \A cat \in Categories :
       Called(cat) /\ ~Failed =>
         /\ last.out = last.recv
         /\ Len(objs) = Len(prev)
         /\ stringify(objs[last.recv]) = TextBefore(last.recv) \o Fragment(cat, last.val)
         /\ objs[last.recv].order = Ord(cat)
         /\ RecvHist = Append(HistBefore, << cat, last.val >>)
  /\ last.op \in Categories /\ last.fresh =>
       last.out = Len(objs) /\ Len(objs) = Len(prev) + 1

\* The third call of a chain returned.
C12_Witness ==
  /\ last.op \in Categories /\ ~last.fresh /\ ~Failed
  /\ Len(RecvHist) = 3
  /\ combined[last.recv] = 0

\* The highest ordinal among the categories appended to a chain (0: none).
MaxOrd(h) ==
  IF h = <<>> THEN 0
  ELSE CHOOSE m \in { Ord(c) : c \in CatsOf(h) } :
         \A c \in CatsOf(h) : Ord(c) <= m

\* C15: the order of a builder is the ordinal of the category appended last
\* (0: none), which is the highest ordinal appended so far, and no operation,
\* returning or throwing, ever lowers it.
C15_Order ==
  /\ \A b \in Builders :
       /\ objs[b].order = LastOrd(hist[b])
       /\ objs[b].order = MaxOrd(hist[b])
  /\ \A b \in 1 .. Len(prev) : objs[b].order >= prev[b].order

\* id() threw on a builder whose order is that of class.
C15_Witness ==
  /\ Called("id") /\ Failed
  /\ objs[last.recv].order = Ord("class")
  /\ prev[last.recv].order = Ord("class")

\* C16 as the claim states it: order is in 0..6, isElementCalled implies
\* order >= 1, isIdCalled implies order >= 2, isPseudoElementCalled holds
\* exactly when order = 6, and on a builder that never was the receiver of
\* combine the text is empty exactly when order = 0.
C16_AsClaimed ==
  \A b \in Builders :
    /\ objs[b].order \in 0 .. 6
    /\ objs[b].isElementCalled => objs[b].order >= 1
    /\ objs[b].isIdCalled => objs[b].order >= 2
    /\ objs[b].isPseudoElementCalled <=> objs[b].order = 6
    /\ combined[b] = 0 => (objs[b].selector = <<>> <=> objs[b].order = 0)

\* C16, amended: as claimed, but on a builder that never was the receiver of
\* combine the text is empty exactly when order = 0 or the only part appended
\* is an element whose value is the empty string.
C16_Consistent ==
  \A b \in Builders :
    /\ objs[b].order \in 0 .. 6
    /\ objs[b].isElementCalled => objs[b].order >= 1
    /\ objs[b].isIdCalled => objs[b].order >= 2
    /\ objs[b].isPseudoElementCalled <=> objs[b].order = 6
    /\ combined[b] = 0 =>
         (objs[b].selector = <<>> <=>
            \/ objs[b].order = 0
            \/ hist[b] = << << "element", <<>> >> >>)

\* A builder made by element('') alone: order 1, flag set, empty text.
C16_Witness ==
  \E b \in Builders :
    /\ combined[b] = 0
    /\ hist[b] = << << "element", <<>> >> >>
    /\ objs[b].selector = <<>>
    /\ objs[b].order = 1 /\ objs[b].isElementCalled

\* C17 as the claim states it: once pseudoElement() has returned on a
\* builder, nothing about the builder changes any more.
C17_AsClaimed ==
  \A b \in 1 .. Len(prev) :
    prev[b].isPseudoElementCalled => objs[b] = prev[b]

\* C17, amended: once pseudoElement() has returned on a builder, every
\* category call on it throws and its order and flags never change again; its
\* text stays as it is too, unless the builder is made the receiver of combine.
C17_Terminal ==
  /\ \A b \in Builders : \A cat \in Categories :
       "pseudoElement" \in CatsOf(hist[b]) => Method(cat, objs[b], arg).res # "ok"
  /\ \A b \in 1 .. Len(prev) :
       prev[b].isPseudoElementCalled =>
         /\ Guards(objs[b]) = Guards(prev[b])
         /\ ~(last.op = "combine" /\ last.recv = b) => objs[b] = prev[b]
  /\ \A cat \in Categories :
       Called(cat) /\ "pseudoElement" \in CatsOf(HistBefore) => Failed

\* pseudoClass() threw on a builder that ends in a pseudo-element.
C17_Witness ==
  /\ Called("pseudoClass") /\ Failed
  /\ LastOrd(RecvHist) = Ord("pseudoElement")

\* C18: the builder cssSelectorBuilder.combine returns has order 0 and no flag
\* set, whatever its operands hold, and combine leaves the order and flags of
\* its receiver as they are; so any one category call on a combination
\* result returns and appends its fragment right after the combined text.
C18_CombineResult ==
  /\ last.op = "combine" /\ last.fresh =>
       Guards(objs[last.recv]) = << 0, FALSE, FALSE, FALSE >>
  /\ last.op = "combine" /\ ~last.fresh =>
       Guards(objs[last.recv]) = Guards(prev[last.recv])
  /\ \A b \in Builders : \A cat \in Categories :
       combined[b] > 0 /\ hist[b] = <<>> =>
         /\ Method(cat, objs[b], arg).res = "ok"
         /\ Method(cat, objs[b], arg).obj.selector =
              objs[b].selector \o Fragment(cat, arg)
  /\ \A cat \in Categories :
       Called(cat) /\ combined[last.recv] > 0 /\ HistBefore = <<>> =>
         /\ ~Failed
         /\ stringify(objs[last.recv]) = TextBefore(last.recv) \o Fragment(cat, last.val)

\* element() returned on the combination of a builder that holds an element.
C18_Witness ==
  /\ Called("element") /\ ~Failed
  /\ combined[last.recv] > 0 /\ HistBefore = <<>>
  /\ \E b \in Builders : b # last.recv /\ objs[b].isElementCalled

\* C19: the duplicate error takes precedence: element() and id() throw it
\* whenever their flag is set, also when the call is out of order as well,
\* and throw the ordering error only with their flag not set; class, attr and
\* pseudoClass throw the ordering error only, pseudoElement the duplicate
\* error only.
C19_ErrorCauses ==
  /\ \A b \in Builders : \A cat \in { "element", "id" } :
       /\ cat \in CatsOf(hist[b]) => Method(cat, objs[b], arg).res = "dup"
       /\ Method(cat, objs[b], arg).res = "order" =>
            cat \notin CatsOf(hist[b]) /\ Ord(cat) < LastOrd(hist[b])
  /\ \A b \in Builders :
       /\ \A cat \in Repeatables : Method(cat, objs[b], arg).res # "dup"
       /\ pseudoElement(objs[b], arg).res # "order"
  /\ last.op \in { "element", "id" } /\ Failed =>
       (last.res = "dup" <=> last.op \in CatsOf(RecvHist))
  /\ last.op \in Repeatables => last.res # "dup"
  /\ last.op = "pseudoElement" => last.res # "order"

\* element, class, element: the repeat is out of order too, and the error is
\* the duplicate one.
C19_Witness ==
  /\ Called("element") /\ last.res = "dup"
  /\ LastOrd(RecvHist) = Ord("class")

----
\* Rectangle, getJSON, fromJSON

\* Bounds: the sides of a rectangle are in -MaxSide .. MaxSide, the numbers of
\* a serialized record in -MaxNum .. MaxNum, and constructors run MaxNew times.
MaxSide == 3
MaxNum == 10
MaxNew == 1

\* Rectangle's getArea with the width for the height.
getArea_squaresWidth(this) == this.width * this.width

\* getArea = () => this.width * this.height
getArea(this) == this.width * this.height

\* function Rectangle(width, height), called with new.
Rectangle(width, height) == [ width |-> width, height |-> height ]

\* A plain data record is the sequence of its own properties << key, value >>
\* in insertion order, with keys that differ; its values are integers.
Keys == { <<"w", "i", "d", "t", "h">>, <<"h", "e", "i", "g", "h", "t">> }

Nums == (0 - MaxNum) .. MaxNum

Records ==
  { <<>> }
    \cup { << << k, v >> >> : k \in Keys, v \in Nums }
    \cup { << << k1, v1 >>, << k2, v2 >> >> :
             << k1, k2 >> \in { kk \in Keys \X Keys : kk[1] # kk[2] },
             << v1, v2 >> \in Nums \X Nums }

DigitChars == << "0", "1", "2", "3", "4", "5", "6", "7", "8", "9" >>

IsDigit(c) == \E d \in 1 .. 10 : DigitChars[d] = c

DigitVal(c) == (CHOOSE d \in 1 .. 10 : DigitChars[d] = c) - 1

\* JSON.stringify of a number: its decimal digits, after '-' when negative.
RECURSIVE Digits(_)
Digits(n) ==
  IF n < 10 THEN << DigitChars[n + 1] >>
  ELSE Digits(n \div 10) \o << DigitChars[(n % 10) + 1] >>

NumberText(n) == IF n < 0 THEN <<"-">> \o Digits(0 - n) ELSE Digits(n)

\* JSON.stringify of the properties from the i-th on: "key":value,...
RECURSIVE MembersText(_, _)
MembersText(obj, i) ==
  IF i > Len(obj) THEN <<>>
  ELSE (IF i > 1 THEN <<",">> ELSE <<>>)
         \o <<"\"">> \o obj[i][1] \o <<"\"", ":">> \o NumberText(obj[i][2])
         \o MembersText(obj, i + 1)

\* JSON.stringify(obj) of a plain data record.
JSONstringify(obj) == <<"{">> \o MembersText(obj, 1) \o <<"}">>

\* JSON.parse: the digits from position i on, after the value acc.
RECURSIVE ParseDigits(_, _, _)
ParseDigits(text, i, acc) ==
  IF i <= Len(text) /\ IsDigit(text[i])
  THEN ParseDigits(text, i + 1, acc * 10 + DigitVal(text[i]))
  ELSE [ val |-> acc, pos |-> i ]

ParseNumber(text, i) ==
  IF text[i] = "-"
  THEN LET r == ParseDigits(text, i + 1, 0) IN [ val |-> 0 - r.val, pos |-> r.pos ]
  ELSE ParseDigits(text, i, 0)

\* JSON.parse: the characters of a key from position i up to its closing quote.
RECURSIVE ParseKey(_, _, _)
ParseKey(text, i, acc) ==
  IF text[i] = "\"" THEN [ key |-> acc, pos |-> i + 1 ]
  ELSE ParseKey(text, i + 1, Append(acc, text[i]))

\* Defining property key of an object: a key it has keeps its place.
Put(obj, key, val) ==
  IF \E j \in 1 .. Len(obj) : obj[j][1] = key
  THEN [ j \in 1 .. Len(obj) |-> IF obj[j][1] = key THEN << key, val >> ELSE obj[j] ]
  ELSE Append(obj, << key, val >>)

\* JSON.parse: the members from position i (an opening quote) on.
RECURSIVE ParseMembers(_, _, _)
ParseMembers(text, i, acc) ==
  LET k == ParseKey(text, i + 1, <<>>)
      v == ParseNumber(text, k.pos + 1)
      obj == Put(acc, k.key, v.val)
  IN IF text[v.pos] = "," THEN ParseMembers(text, v.pos + 1, obj) ELSE obj

\* JSON.parse(json) of the text of a plain data record.
JSONparse(json) ==
  IF json[2] = "}" THEN <<>> ELSE ParseMembers(json, 2, <<>>)

\* getJSON(obj)
getJSON(obj) == JSONstringify(obj)

\* The prototypes handed to fromJSON; an object literal has Object.prototype.
Protos == { "Circle.prototype", "Rectangle.prototype" }

\* fromJSON returning the parsed object as it is.
fromJSON_keepsPrototype(proto, json) ==
  [ own |-> JSONparse(json), proto |-> "Object.prototype" ]

\* fromJSON(proto, json): own are the own properties of the object returned,
\* proto its prototype.
fromJSON(proto, json) == [ own |-> JSONparse(json), proto |-> proto ]

Sides == (0 - MaxSide) .. MaxSide

\* new Rectangle(width, height)
NewRectangle(width, height) ==
  /\ lib.news < MaxNew
  /\ lib' = [ NoLib EXCEPT !.op = "Rectangle", !.args = << width, height >>,
                           !.rect = Rectangle(width, height),
                           !.news = lib.news + 1, !.newsBefore = lib.news ]
  /\ UNCHANGED << objs, hist, combined, work, last, prev, arg, tok >>

\* r.getArea() on the rectangle constructed last.
CallGetArea ==
  /\ lib.op \in { "Rectangle", "getArea" }
  /\ lib' = [ lib EXCEPT !.op = "getArea", !.area = getArea(lib.rect),
                         !.newsBefore = lib.news ]
  /\ UNCHANGED << objs, hist, combined, work, last, prev, arg, tok >>

\* getJSON(obj)
CallGetJSON(obj) ==
  /\ lib' = [ NoLib EXCEPT !.op = "getJSON", !.obj = obj, !.json = getJSON(obj),
                           !.news = lib.news, !.newsBefore = lib.news ]
  /\ UNCHANGED << objs, hist, combined, work, last, prev, arg, tok >>

\* fromJSON(proto, json), json the text getJSON returned last.
CallFromJSON(proto) ==
  /\ lib.op = "getJSON"
  /\ lib' = [ lib EXCEPT !.op = "fromJSON", !.args = << proto >>,
                         !.res = fromJSON(proto, lib.json),
                         !.newsBefore = lib.news ]
  /\ UNCHANGED << objs, hist, combined, work, last, prev, arg, tok >>

NextLib ==
  \/ \E width \in Sides, height \in Sides : NewRectangle(width, height)
  \/ CallGetArea
  \/ \E obj \in Records : CallGetJSON(obj)
  \/ \E proto \in Protos : CallFromJSON(proto)

SpecLib == Init /\ [][NextLib]_vars

C14_Rectangle ==
  /\ lib.op \in { "Rectangle", "getArea" } =>
       /\ lib.rect.width = lib.args[1]
       /\ lib.rect.height = lib.args[2]
  /\ lib.op = "getArea" => lib.area = lib.args[1] * lib.args[2]

\* getArea() of new Rectangle(2, -3) returned -6.
C14_Witness ==
  /\ lib.op = "getArea"
  /\ lib.args = << 2, 0 - 3 >>
  /\ lib.area = 0 - 6

====
